---- MODULE Spec2Model ----
(***************************************************************************)
(* A model of two components of the repository:                            *)
(*   - GroupsRegistryComponent (groups-registry.component.ts): the search  *)
(*     / page / delete handlers, the searchGroups result streams and the   *)
(*     switchMap + combineLatest composer that builds groupsDto$;          *)
(*   - RSSComponent (rss.component.ts): formulateRoute, addLinks and the   *)
(*     link tags registered in the document head.                          *)
(* Strings are TLA+ strings; a nullable string is <<>> (null) or <<s>>.    *)
(***************************************************************************)
EXTENDS Integers, Sequences, FiniteSets, TLC

VARIABLES
  phase,              \* "constructed" | "active" | "destroyed" (Angular lifecycle)
  currentPage,        \* config.currentPage
  currentSearchQuery, \* this.currentSearchQuery
  formQuery,          \* searchForm.value.query
  groups,             \* latest value of groups$
  groupsDto,          \* latest value of groupsDto$
  pageInfoState,      \* latest value of pageInfoState$
  subs,               \* this.subs, in push order
  pendingDeletes,     \* groupService.deleteGroup calls in flight, per group
  cachedRequests,     \* request cache of GroupDataService
  calls,              \* the calls made by the handler that ran last, in order
  searchLimit,        \* how many search() calls a behaviour is explored for
  rssPhase,           \* RSSComponent: "constructed" | "active" | "destroyed"
  baseUrl,            \* environment.rest.baseUrl
  isEnabled,          \* latest value of isEnabled$
  enablePending,      \* the websvc.opensearch.enable lookup has not completed
  opensearch,         \* <<>> until the websvc.opensearch.svccontext lookup completes
  sortSubs,           \* the query each sortOption$ subscription was made for
  uuid,               \* this.uuid
  route,              \* <<>> until route$ is created, then <<its value>>
  head,               \* the link tags of document.head, in order
  emission            \* the inputs of the sort emission handled last

gvars == <<phase, currentPage, currentSearchQuery, formQuery, groups, groupsDto,
           pageInfoState, subs, pendingDeletes, cachedRequests, calls, searchLimit>>

rvars == <<rssPhase, baseUrl, isEnabled, enablePending, opensearch, sortSubs,
           uuid, route, head, emission>>

(***************************************************************************)
(* Bounds of the exploration.                                              *)
(***************************************************************************)
MaxSearches == 3
MaxEmits == 2
MaxPage == 2
MaxDeletes == 1
MaxHandlerSearches == 4
NumGroups == 2

(***************************************************************************)
(* Program constants.                                                      *)
(***************************************************************************)
pageSize == 5
messagePrefix == "admin.access-control.groups."

(***************************************************************************)
(* Values.                                                                 *)
(***************************************************************************)
Null == [null |-> TRUE]
Undefined == [undefined |-> TRUE]
EmptyObject == [emptyObject |-> TRUE]

Groups == 1..NumGroups
Queries == {"", " a"}
ErrorMessages == {"cause"}

\* Every ordering of every subset of Groups: the pages the backend may return.
RECURSIVE SeqsOver(_)
SeqsOver(S) ==
  IF S = {} THEN {<<>>}
  ELSE {<<>>} \cup UNION {{<<g>> \o t : t \in SeqsOver(S \ {g})} : g \in S}

Pages == SeqsOver(Groups)

(***************************************************************************)
(* Library helpers the handlers use.                                       *)
(***************************************************************************)
\* hasValue of empty.util: neither null nor undefined.
hasValue(v) == v # Null /\ v # Undefined

\* AuthorizationDataService.isAuthorized(CanDelete, group.self): the backend's
\* answer is a function of the group; here the groups of AuthorizedGroups
\* may be deleted and the others may not.
AuthorizedGroups == {1}
isAuthorized(group) == group \in AuthorizedGroups

\* A group is modelled by its id, and every group the backend returns has one.
hasId(group) == group \in Groups

\* String.prototype.trim strips WhiteSpace and LineTerminator code points:
\* TAB, LF, VT, FF, CR, SP, U+00A0, U+1680, U+FEFF, and U+2000..U+200A,
\* U+2028, U+2029, U+202F, U+205F, U+3000. The last group cannot occur in a
\* string of this module (the lexer rejects them), so the set below is every
\* strippable character a string here can hold.
Whitespace ==
  {" ", "\t", "\n", "\r", "\f", "", " ", " ", "﻿"}

RECURSIVE trimStart(_)
trimStart(str) ==
  IF Len(str) > 0 /\ SubSeq(str, 1, 1) \in Whitespace
  THEN trimStart(SubSeq(str, 2, Len(str)))
  ELSE str

RECURSIVE trimEnd(_)
trimEnd(str) ==
  IF Len(str) > 0 /\ SubSeq(str, Len(str), Len(str)) \in Whitespace
  THEN trimEnd(SubSeq(str, 1, Len(str) - 1))
  ELSE str

trim(str) == trimEnd(trimStart(str))

\* RemoteData<T>: { state, payload, errorMessage }.
RemoteDataSuccess(payload) ==
  [state |-> "Success", payload |-> payload, errorMessage |-> <<>>]
RemoteDataError(message) ==
  [state |-> "Error", payload |-> Null, errorMessage |-> <<message>>]

hasSucceeded(rd) == rd # EmptyObject /\ rd.state = "Success"

PaginatedList(pageInfo, page) == [pageInfo |-> pageInfo, page |-> page]

GroupDtoModel(group, ableToDelete) == [group |-> group, ableToDelete |-> ableToDelete]

\* The pageInfo the backend returns with a page answering `request`.
ResponsePageInfo(request, page) ==
  [currentPage |-> request.currentPage,
   elementsPerPage |-> request.elementsPerPage,
   totalElements |-> (request.currentPage - 1) * request.elementsPerPage + Len(page)]

\* What one searchGroups stream may emit for `request`.
Responses(request) ==
  {RemoteDataSuccess(PaginatedList(ResponsePageInfo(request, page), page)) : page \in Pages}
    \cup {RemoteDataError(m) : m \in ErrorMessages}

(***************************************************************************)
(* The component's state as one record, so that a handler is a function    *)
(* from state to state and handlers compose as they call each other.       *)
(***************************************************************************)
State ==
  [currentPage |-> currentPage, currentSearchQuery |-> currentSearchQuery,
   formQuery |-> formQuery, groups |-> groups, groupsDto |-> groupsDto,
   pageInfoState |-> pageInfoState, subs |-> subs,
   pendingDeletes |-> pendingDeletes, cachedRequests |-> cachedRequests,
   calls |-> calls]

Becomes(s) ==
  /\ currentPage' = s.currentPage
  /\ currentSearchQuery' = s.currentSearchQuery
  /\ formQuery' = s.formQuery
  /\ groups' = s.groups
  /\ groupsDto' = s.groupsDto
  /\ pageInfoState' = s.pageInfoState
  /\ subs' = s.subs
  /\ pendingDeletes' = s.pendingDeletes
  /\ cachedRequests' = s.cachedRequests
  /\ calls' = s.calls

\* The handler `entry` starts running: the record of calls starts anew.
Enter(entry) == [State EXCEPT !.calls = <<entry>>]

Call(s, call) == [s EXCEPT !.calls = Append(@, call)]

NoInner == Null

FetchSubscription(request) ==
  [kind |-> "fetch", closed |-> FALSE, request |-> request, emitted |-> 0]

ComposerSubscription(inner) ==
  [kind |-> "composer", closed |-> FALSE, inner |-> inner]

IsLiveFetch(sub) == sub.kind = "fetch" /\ ~sub.closed
IsLiveComposer(sub) == sub.kind = "composer" /\ ~sub.closed

(***************************************************************************)
(* The composer: groups$ | getAllSucceededRemoteDataPayload | switchMap(   *)
(* combineLatest(isAuthorized per group)) -> groupsDto$, pageInfoState$.   *)
(***************************************************************************)
\* combineLatest over the isAuthorized streams of list.page: the latest value
\* of each (none yet). With no stream at all it completes without emitting.
combineLatest(list) ==
  IF Len(list.page) = 0 THEN NoInner
  ELSE [groups |-> list, latest |-> [i \in 1..Len(list.page) |-> <<>>]]

\* switchMap of live composer k takes a new payload: the previous inner
\* subscription is dropped, a new one subscribes isAuthorized for every group.
switchMapNext(s, k, list) ==
  LET s1 == [s EXCEPT !.subs[k].inner = combineLatest(list)]
  IN IF Len(list.page) = 0 THEN s1
     ELSE Call(s1, [op |-> "isAuthorized", sub |-> k, objects |-> list.page])

RECURSIVE NotifyComposers(_, _, _)
NotifyComposers(s, list, k) ==
  IF k > Len(s.subs) THEN s
  ELSE NotifyComposers(IF IsLiveComposer(s.subs[k]) THEN switchMapNext(s, k, list) ELSE s,
                       list, k + 1)

\* groups$.next(value): the subject keeps the value and hands it to its
\* subscribers, the composers, in subscription order; each lets only a
\* succeeded RemoteData through (getAllSucceededRemoteDataPayload).
groupsNext(s, value) ==
  LET s1 == Call([s EXCEPT !.groups = value], [op |-> "groups$.next", value |-> value])
  IN IF hasSucceeded(value) THEN NotifyComposers(s1, value.payload, 1) ELSE s1

pageInfoStateNext(s, value) ==
  Call([s EXCEPT !.pageInfoState = value], [op |-> "pageInfoState$.next", value |-> value])

groupsDtoNext(s, value) ==
  Call([s EXCEPT !.groupsDto = value], [op |-> "groupsDto$.next", value |-> value])

\* The subscriber of the composed stream (lines 133-136).
composerSubscriber(s, value) ==
  pageInfoStateNext(groupsDtoNext(s, value), value.pageInfo)

\* combineLatest emits once every source has produced a value.
combineLatestReady(latest) == \A i \in DOMAIN latest : latest[i] # <<>>

composeDtos_reversed(page, latest) ==
  [j \in 1..Len(page) |->
     GroupDtoModel(page[Len(page) + 1 - j], latest[Len(page) + 1 - j][1])]

\* The array combineLatest emits, mapped source by source to a GroupDtoModel.
composeDtos(page, latest) ==
  [j \in 1..Len(page) |-> GroupDtoModel(page[j], latest[j][1])]

authorizedNext_streaming(s, k, i, authorized) ==
  LET inner == s.subs[k].inner
      latest == [inner.latest EXCEPT ![i] = <<authorized>>]
      done == SelectSeq([j \in 1..Len(inner.groups.page) |-> j], LAMBDA j : latest[j] # <<>>)
      s1 == [s EXCEPT !.subs[k].inner.latest = latest]
  IN composerSubscriber(s1,
       PaginatedList(inner.groups.pageInfo,
                     [j \in 1..Len(done) |->
                        GroupDtoModel(inner.groups.page[done[j]], latest[done[j]][1])]))

\* isAuthorized of the i-th group of composer k's inner subscription resolves.
authorizedNext(s, k, i, authorized) ==
  LET inner == s.subs[k].inner
      latest == [inner.latest EXCEPT ![i] = <<authorized>>]
      s1 == [s EXCEPT !.subs[k].inner.latest = latest]
  IN IF combineLatestReady(latest)
     THEN composerSubscriber(s1, PaginatedList(inner.groups.pageInfo,
                                               composeDtos(inner.groups.page, latest)))
     ELSE s1

(***************************************************************************)
(* GroupDataService as the component uses it.                              *)
(***************************************************************************)
\* searchGroups(query, options): answered from the request cache when the
\* same request is cached, by a new REST call otherwise.
searchGroups(s, request) ==
  [Call(s, [op |-> "searchGroups", request |-> request,
            cached |-> request \in s.cachedRequests])
     EXCEPT !.cachedRequests = @ \cup {request}]

clearGroupsRequests(s) ==
  [Call(s, [op |-> "clearGroupsRequests"]) EXCEPT !.cachedRequests = {}]

(***************************************************************************)
(* GroupsRegistryComponent.                                                *)
(***************************************************************************)
\* Lines 109-116: the searchGroups call and the subscription pushed to subs.
subscribeSearchGroups(s) ==
  LET request == [query |-> trim(s.currentSearchQuery),
                  currentPage |-> s.currentPage,
                  elementsPerPage |-> pageSize]
  IN [searchGroups(s, request) EXCEPT !.subs = Append(@, FetchSubscription(request))]

\* Lines 118-136: a further composer subscribes groups$, a BehaviorSubject,
\* which hands it its current value at once.
subscribeComposer(s) ==
  LET k == Len(s.subs) + 1
      s1 == [s EXCEPT !.subs = Append(@, ComposerSubscription(NoInner))]
  IN IF hasSucceeded(s.groups) THEN switchMapNext(s1, k, s.groups.payload) ELSE s1

search_resetAfterFetch(s, data) ==
  LET changed == data.query # <<>> /\ s.currentSearchQuery # data.query[1]
      s1 == IF changed
            THEN [Call(s, [op |-> "navigateByUrl"]) EXCEPT !.currentSearchQuery = data.query[1]]
            ELSE s
      s2 == subscribeSearchGroups(s1)
      s3 == IF changed THEN [s2 EXCEPT !.currentPage = 1] ELSE s2
  IN subscribeComposer(s3)

search(s, data) ==
  LET changed == data.query # <<>> /\ s.currentSearchQuery # data.query[1]
      s1 == IF changed
            THEN [Call(s, [op |-> "navigateByUrl"])
                    EXCEPT !.currentSearchQuery = data.query[1], !.currentPage = 1]
            ELSE s
  IN subscribeComposer(subscribeSearchGroups(s1))

ngOnInit(s) == search(s, [query |-> <<s.currentSearchQuery>>])

onPageChange_ignoresEvent(s, event) ==
  search(s, [query |-> <<s.currentSearchQuery>>])

onPageChange(s, event) ==
  search([s EXCEPT !.currentPage = event], [query |-> <<s.currentSearchQuery>>])

\* The subscriber of one searchGroups stream (lines 112-115). Reading
\* pageInfo of a null payload throws a TypeError inside the subscriber; the
\* RxJS build decides whether that also unsubscribes the stream.
searchGroupsNext(s, k, groupsRD, unsubscribeOnThrow) ==
  LET s1 == groupsNext([s EXCEPT !.subs[k].emitted = @ + 1], groupsRD)
  IN IF groupsRD.payload = Null
     THEN [Call(s1, [op |-> "throw", error |-> "TypeError"])
             EXCEPT !.subs[k].closed = unsubscribeOnThrow]
     ELSE pageInfoStateNext(s1, groupsRD.payload.pageInfo)

forceUpdateGroup_searchFirst(s) ==
  clearGroupsRequests(search(s, [query |-> <<s.currentSearchQuery>>]))

forceUpdateGroup(s) ==
  search(clearGroupsRequests(s), [query |-> <<s.currentSearchQuery>>])

deleteGroupNext_alwaysRefresh(s, group, success, optionalErrorMessage) ==
  IF success
  THEN forceUpdateGroup(
         Call(s, [op |-> "notifications.success",
                  title |-> [key |-> messagePrefix \o "notification.deleted.success",
                             name |-> group]]))
  ELSE forceUpdateGroup(
         Call(s, [op |-> "notifications.error",
                  title |-> [key |-> messagePrefix \o "notification.deleted.failure.title",
                             name |-> group],
                  content |-> [key |-> messagePrefix \o "notification.deleted.failure.content",
                               cause |-> optionalErrorMessage]]))

\* deleteGroup(group) up to the subscribe (lines 143-144): the call is in flight.
deleteGroup(s, group) ==
  IF hasId(group)
  THEN [Call(s, [op |-> "groupService.deleteGroup", group |-> group])
          EXCEPT !.pendingDeletes[group] = @ + 1]
  ELSE s

\* The subscriber of groupService.deleteGroup(group).pipe(take(1)) (lines 145-154).
deleteGroupNext(s, group, success, optionalErrorMessage) ==
  IF success
  THEN forceUpdateGroup(
         Call(s, [op |-> "notifications.success",
                  title |-> [key |-> messagePrefix \o "notification.deleted.success",
                             name |-> group]]))
  ELSE Call(s, [op |-> "notifications.error",
                title |-> [key |-> messagePrefix \o "notification.deleted.failure.title",
                           name |-> group],
                content |-> [key |-> messagePrefix \o "notification.deleted.failure.content",
                             cause |-> optionalErrorMessage]])

clearFormAndResetResult_presetsQuery(s) ==
  search([Call(s, [op |-> "patchValue", query |-> ""])
            EXCEPT !.formQuery = "", !.currentSearchQuery = ""],
         [query |-> <<"">>])

clearFormAndResetResult(s) ==
  search([Call(s, [op |-> "patchValue", query |-> ""]) EXCEPT !.formQuery = ""],
         [query |-> <<"">>])

\* unsubscribe() of a composer also drops its inner isAuthorized subscriptions.
unsubscribe(sub) ==
  IF sub.kind = "composer" THEN [sub EXCEPT !.closed = TRUE, !.inner = NoInner]
  ELSE [sub EXCEPT !.closed = TRUE]

cleanupSubscribes(s) ==
  [s EXCEPT !.subs = [k \in DOMAIN @ |-> IF hasValue(@[k]) THEN unsubscribe(@[k]) ELSE @[k]]]

ngOnDestroy(s) == cleanupSubscribes(s)

(***************************************************************************)
(* The state machine of the groups registry.                               *)
(***************************************************************************)
RECURSIVE SumOver(_, _)
SumOver(f, S) ==
  IF S = {} THEN 0
  ELSE LET x == CHOOSE x \in S : TRUE IN f[x] + SumOver(f, S \ {x})

PendingTotal == SumOver(pendingDeletes, Groups)

\* The searches that may still be issued within searchLimit; a delete in
\* flight keeps one for the search its success issues.
Budget == searchLimit - (Len(subs) \div 2) - PendingTotal

\* The values the searchGroups streams have emitted so far.
RECURSIVE EmittedUpTo(_)
EmittedUpTo(k) ==
  IF k = 0 THEN 0
  ELSE (IF subs[k].kind = "fetch" THEN subs[k].emitted ELSE 0) + EmittedUpTo(k - 1)

Emitted == EmittedUpTo(Len(subs))

DisplayedGroups ==
  IF groupsDto = EmptyObject THEN {}
  ELSE {groupsDto.page[i].group : i \in DOMAIN groupsDto.page}

InitialRequest == [query |-> "", currentPage |-> 1, elementsPerPage |-> pageSize]

GroupsInit ==
  /\ phase = "constructed"
  /\ currentPage = 1
  /\ currentSearchQuery = ""
  /\ formQuery = ""
  /\ groups = EmptyObject
  /\ groupsDto = EmptyObject
  /\ pageInfoState = Undefined
  /\ subs = <<>>
  /\ pendingDeletes = [g \in Groups |-> 0]
  /\ cachedRequests \in SUBSET {InitialRequest}
  /\ calls = <<>>

NgOnInit ==
  /\ UNCHANGED <<rvars, searchLimit>>
  /\ phase = "constructed"
  /\ phase' = "active"
  /\ Becomes(ngOnInit(Enter([op |-> "ngOnInit"])))

\* The search form is submitted with its value, or search is called with no query.
Search ==
  /\ UNCHANGED <<rvars, searchLimit>>
  /\ phase = "active"
  /\ Budget > 0
  /\ \/ \E q \in Queries :
          Becomes(search([Enter([op |-> "search", query |-> <<q>>]) EXCEPT !.formQuery = q],
                         [query |-> <<q>>]))
     \/ Becomes(search(Enter([op |-> "search", query |-> <<>>]), [query |-> <<>>]))
  /\ UNCHANGED phase

OnPageChange ==
  /\ UNCHANGED <<rvars, searchLimit>>
  /\ phase = "active"
  /\ Budget > 0
  /\ \E n \in 1..MaxPage :
       Becomes(onPageChange(Enter([op |-> "onPageChange", event |-> n]), n))
  /\ UNCHANGED phase

ClearFormAndResetResult ==
  /\ UNCHANGED <<rvars, searchLimit>>
  /\ phase = "active"
  /\ Budget > 0
  /\ Becomes(clearFormAndResetResult(Enter([op |-> "clearFormAndResetResult"])))
  /\ UNCHANGED phase

ForceUpdateGroup ==
  /\ UNCHANGED <<rvars, searchLimit>>
  /\ phase = "active"
  /\ Budget > 0
  /\ Becomes(forceUpdateGroup(Enter([op |-> "forceUpdateGroup"])))
  /\ UNCHANGED phase

\* The user deletes a group of the displayed list.
DeleteGroup ==
  /\ UNCHANGED <<rvars, searchLimit>>
  /\ phase = "active"
  /\ Budget > 0
  /\ PendingTotal < MaxDeletes
  /\ \E g \in DisplayedGroups :
       Becomes(deleteGroup(Enter([op |-> "deleteGroup", group |-> g]), g))
  /\ UNCHANGED phase

\* The backend answers a delete; the subscription is not in subs, so the
\* answer is handled whether or not the component still exists.
DeleteGroupResolves ==
  /\ UNCHANGED <<rvars, searchLimit>>
  /\ \E g \in Groups :
       /\ pendingDeletes[g] > 0
       /\ \E result \in {<<TRUE, <<>>>>} \cup {<<FALSE, <<m>>>> : m \in ErrorMessages} :
            Becomes(deleteGroupNext(
              [Enter([op |-> "deleteGroup.next", group |-> g, success |-> result[1],
                      optionalErrorMessage |-> result[2]])
                 EXCEPT !.pendingDeletes[g] = @ - 1],
              g, result[1], result[2]))
  /\ UNCHANGED phase

\* A live searchGroups stream emits.
SearchGroupsEmits ==
  /\ UNCHANGED <<rvars, searchLimit>>
  /\ \E k \in DOMAIN subs :
       /\ IsLiveFetch(subs[k])
       /\ Emitted < MaxEmits
       /\ \E groupsRD \in Responses(subs[k].request) :
            \E u \in (IF groupsRD.payload = Null THEN BOOLEAN ELSE {FALSE}) :
              Becomes(searchGroupsNext(Enter([op |-> "searchGroups.next", sub |-> k]),
                                       k, groupsRD, u))
  /\ UNCHANGED phase

\* An isAuthorized stream of a live composer resolves.
AuthorizedEmits ==
  /\ UNCHANGED <<rvars, searchLimit>>
  /\ \E k \in DOMAIN subs :
       /\ IsLiveComposer(subs[k])
       /\ subs[k].inner # NoInner
       /\ \E i \in DOMAIN subs[k].inner.latest :
            /\ subs[k].inner.latest[i] = <<>>
            /\ Becomes(authorizedNext(
                 Enter([op |-> "isAuthorized.next", sub |-> k, index |-> i]),
                 k, i, isAuthorized(subs[k].inner.groups.page[i])))
  /\ UNCHANGED phase

NgOnDestroy ==
  /\ UNCHANGED <<rvars, searchLimit>>
  /\ phase = "active"
  /\ phase' = "destroyed"
  /\ Becomes(ngOnDestroy(Enter([op |-> "ngOnDestroy"])))

GroupsNext ==
  \/ NgOnInit
  \/ Search
  \/ OnPageChange
  \/ ClearFormAndResetResult
  \/ ForceUpdateGroup
  \/ DeleteGroup
  \/ DeleteGroupResolves
  \/ SearchGroupsEmits
  \/ AuthorizedEmits
  \/ NgOnDestroy

(***************************************************************************)
(* RSSComponent.                                                           *)
(***************************************************************************)
MaxQueryEmits == 2
MaxSortEmits == 2

BaseUrls == {"", "http://h/server"}
ServiceContexts == {"svc", "format=atom"}
Uuids == {"", "abc"}
SortFields == {"", "score"}
SortDirections == {"", "desc"}
FeedQueries == {"", "q"}

\* String.prototype.indexOf(pattern, from), 1-based; 0 when there is none.
RECURSIVE indexOf(_, _, _)
indexOf(str, pattern, from) ==
  IF from + Len(pattern) - 1 > Len(str) THEN 0
  ELSE IF SubSeq(str, from, from + Len(pattern) - 1) = pattern THEN from
  ELSE indexOf(str, pattern, from + 1)

\* String.prototype.replace(pattern, replacement) with a string pattern: the
\* first occurrence only.
replace(str, pattern, replacement) ==
  LET i == indexOf(str, pattern, 1)
  IN IF i = 0 THEN str
     ELSE SubSeq(str, 1, i - 1) \o replacement \o SubSeq(str, i + Len(pattern), Len(str))

\* JavaScript truthiness of a string.
truthy(str) == str # ""

formulateRoute_noDefaultQuery(uuidArg, opensearchArg, sort, query) ==
  LET r0 == "search?format=atom"
      r1 == IF truthy(uuidArg) THEN r0 \o "&scope=" \o uuidArg ELSE r0
      r2 == IF truthy(sort.direction) /\ truthy(sort.field)
            THEN r1 \o "&sort=" \o sort.field \o "&sort_direction=" \o sort.direction
            ELSE r1
      r3 == r2 \o "&query=" \o query
  IN "/" \o opensearchArg \o "/" \o r3

formulateRoute(uuidArg, opensearchArg, sort, query) ==
  LET r0 == "search?format=atom"
      r1 == IF truthy(uuidArg) THEN r0 \o "&scope=" \o uuidArg ELSE r0
      r2 == IF truthy(sort.direction) /\ truthy(sort.field)
            THEN r1 \o "&sort=" \o sort.field \o "&sort_direction=" \o sort.direction
            ELSE r1
      r3 == IF truthy(query) THEN r2 \o "&query=" \o query ELSE r2 \o "&query=*"
  IN "/" \o opensearchArg \o "/" \o r3

\* LinkHeadService.addTag: a new link element appended to the head.
addTag(tags, tag) == Append(tags, tag)

\* LinkHeadService.removeTag("rel='alternate'"): every link[rel='alternate'] is removed.
removeTag(tags, rel) == SelectSeq(tags, LAMBDA tag : tag.rel # rel)

addLinks(tags, routeArg) ==
  LET atom == addTag(tags, [href |-> routeArg, type |-> "application/atom+xml",
                            rel |-> "alternate", title |-> "Sitewide Atom feed"])
  IN addTag(atom, [href |-> replace(routeArg, "format=atom", "format=rss"),
                   type |-> "application/rss+xml",
                   rel |-> "alternate", title |-> "Sitewide RSS feed"])

RssInit ==
  /\ rssPhase = "constructed"
  /\ baseUrl \in BaseUrls
  /\ isEnabled = FALSE
  /\ enablePending = FALSE
  /\ opensearch = <<>>
  /\ sortSubs = <<>>
  /\ uuid = Undefined
  /\ route = <<>>
  /\ head = <<>>
  /\ emission = Null

\* ngOnInit (lines 59-87): the two configuration lookups are subscribed.
RssNgOnInit ==
  /\ UNCHANGED gvars
  /\ rssPhase = "constructed"
  /\ rssPhase' = "active"
  /\ enablePending' = TRUE
  /\ UNCHANGED <<baseUrl, isEnabled, opensearch, sortSubs, uuid, route, head, emission>>

\* Lines 64-67: the websvc.opensearch.enable lookup completes.
EnableCompletes ==
  /\ UNCHANGED gvars
  /\ enablePending
  /\ enablePending' = FALSE
  /\ \E value \in {"true", "false"} : isEnabled' = (value = "true")
  /\ UNCHANGED <<rssPhase, baseUrl, opensearch, sortSubs, uuid, route, head, emission>>

\* Lines 70-71: the websvc.opensearch.svccontext lookup completes and the
\* current query is subscribed.
SvcContextCompletes ==
  /\ UNCHANGED gvars
  /\ rssPhase # "constructed"
  /\ opensearch = <<>>
  /\ \E url \in ServiceContexts : opensearch' = <<url>>
  /\ UNCHANGED <<rssPhase, baseUrl, isEnabled, enablePending, sortSubs, uuid, route, head,
                 emission>>

\* Lines 71-73: the current query emits; sortOption$ is subscribed for it.
QueryEmits ==
  /\ UNCHANGED gvars
  /\ opensearch # <<>>
  /\ Len(sortSubs) < MaxQueryEmits
  /\ \E query \in FeedQueries : sortSubs' = Append(sortSubs, query)
  /\ UNCHANGED <<rssPhase, baseUrl, isEnabled, enablePending, opensearch, uuid, route, head,
                 emission>>

\* Lines 73-84: a sortOption$ subscription emits.
SortEmits ==
  /\ UNCHANGED gvars
  /\ Len(head) < 3 * MaxSortEmits
  /\ \E j \in DOMAIN sortSubs, field \in SortFields, direction \in SortDirections, u \in Uuids :
       LET sort == [field |-> field, direction |-> direction]
           r == baseUrl \o formulateRoute(u, opensearch[1], sort, sortSubs[j])
       IN /\ uuid' = u
          /\ head' = addTag(addLinks(head, r),
                            [href |-> baseUrl \o "/" \o opensearch[1] \o "/service",
                             type |-> "application/atom+xml",
                             rel |-> "search", title |-> "Dspace"])
          /\ route' = <<r>>
          /\ emission' = [uuid |-> u, opensearch |-> opensearch[1], sort |-> sort,
                          query |-> sortSubs[j]]
  /\ UNCHANGED <<rssPhase, baseUrl, isEnabled, enablePending, opensearch, sortSubs>>

\* ngOnDestroy (lines 51-53).
RssNgOnDestroy ==
  /\ UNCHANGED gvars
  /\ rssPhase = "active"
  /\ rssPhase' = "destroyed"
  /\ head' = removeTag(head, "alternate")
  /\ UNCHANGED <<baseUrl, isEnabled, enablePending, opensearch, sortSubs, uuid, route,
                 emission>>

RssNext ==
  \/ RssNgOnInit
  \/ EnableCompletes
  \/ SvcContextCompletes
  \/ QueryEmits
  \/ SortEmits
  \/ RssNgOnDestroy

(***************************************************************************)
(* The specifications: each component on its own.                          *)
(***************************************************************************)
vars == <<gvars, rvars>>

Init == GroupsInit /\ searchLimit = MaxSearches /\ RssInit /\ baseUrl = ""

Next == GroupsNext

Spec == Init /\ [][Next]_vars

InitRss == RssInit /\ GroupsInit /\ searchLimit = MaxSearches /\ cachedRequests = {}

NextRss == RssNext

SpecRss == InitRss /\ [][NextRss]_vars

\* The handlers the user drives, for longer sequences of searches, in the
\* window in which no stream has answered yet.
InitHandlers ==
  GroupsInit /\ searchLimit = MaxHandlerSearches /\ RssInit /\ baseUrl = ""

NextHandlers ==
  \/ NgOnInit
  \/ Search
  \/ OnPageChange
  \/ ClearFormAndResetResult
  \/ ForceUpdateGroup
  \/ NgOnDestroy

SpecHandlers == InitHandlers /\ [][NextHandlers]_vars

(***************************************************************************)
(* Properties of the groups registry (specification Spec).                 *)
(***************************************************************************)
Ops == [n \in DOMAIN calls |-> calls[n].op]

LastFetchIndex == Len(subs) - 1

\* C1: a step that changes currentSearchQuery (search() called with a
\* non-null query that differs from it) sets config.currentPage to 1 and
\* issues exactly one searchGroups fetch, which carries currentPage = 1 and
\* the new query (trimmed, as every fetch carries it), whatever page was
\* selected before.
C1_QueryChangeResetsPage ==
  [][currentSearchQuery' # currentSearchQuery =>
       /\ currentPage' = 1
       /\ Len(subs') = Len(subs) + 2
       /\ subs'[Len(subs) + 1].kind = "fetch"
       /\ subs'[Len(subs) + 1].request =
            [query |-> trim(currentSearchQuery'), currentPage |-> 1,
             elementsPerPage |-> pageSize]
       /\ \A n \in DOMAIN calls' :
            calls'[n].op = "searchGroups" => calls'[n].request.currentPage = 1]_vars

\* A search for a changed query was issued while page 2 was selected, and
\* its fetch carries page 1.
C1_Witness ==
  \E k \in DOMAIN subs :
    /\ k >= 3
    /\ subs[k].kind = "fetch"
    /\ subs[k - 2].request.currentPage = 2
    /\ subs[k].request.query # subs[k - 2].request.query
    /\ subs[k].request.currentPage = 1
    /\ k = LastFetchIndex
    /\ "navigateByUrl" \in {calls[n].op : n \in DOMAIN calls}

\* C2: every list published to groupsDto$ has the length of the page its
\* composer was given, and its i-th DTO wraps the i-th group of that page,
\* in whatever order the isAuthorized derivations resolved.
C2_ComposedOrderIsInputOrder ==
  \A n \in DOMAIN calls :
    calls[n].op = "groupsDto$.next" =>
      /\ calls[1].op = "isAuthorized.next"
      /\ LET page == subs[calls[1].sub].inner.groups.page
             dtos == calls[n].value.page
         IN /\ Len(dtos) = Len(page)
            /\ \A i \in DOMAIN page : dtos[i].group = page[i]
            /\ calls[n].value.pageInfo = subs[calls[1].sub].inner.groups.pageInfo

\* A page of two groups was published after its derivations resolved in
\* reverse order (the first group's last).
C2_Witness ==
  /\ calls # <<>>
  /\ calls[1].op = "isAuthorized.next"
  /\ calls[1].index = 1
  /\ "groupsDto$.next" \in {calls[n].op : n \in DOMAIN calls}
  /\ Len(groupsDto.page) = 2
  /\ groupsDto.page[1].group = 2

\* C3: once the component is destroyed, groups$, groupsDto$ and
\* pageInfoState$ keep their values, whichever asynchronous operation
\* resolves afterwards.
C3_NoMutationAfterDestroy ==
  [][phase = "destroyed" =>
       /\ groups' = groups
       /\ groupsDto' = groupsDto
       /\ pageInfoState' = pageInfoState]_vars

\* C4: a searchGroups result is handled (groups$ and pageInfoState$ are
\* written) only when it comes from the most recently issued fetch.
C4_OnlyLatestFetchMutates ==
  (calls # <<>> /\ calls[1].op = "searchGroups.next") => calls[1].sub = LastFetchIndex

\* C5: every clearGroupsRequests call is followed at once by a searchGroups
\* call for the unchanged query and page, which the cleared cache cannot
\* answer; and a delete that reports success does exactly: success
\* notification, invalidation, fetch.
C5_InvalidateThenFetch ==
  /\ \A n \in DOMAIN calls :
       calls[n].op = "clearGroupsRequests" =>
         /\ n < Len(calls)
         /\ calls[n + 1].op = "searchGroups"
         /\ ~calls[n + 1].cached
         /\ calls[n + 1].request =
              [query |-> trim(currentSearchQuery), currentPage |-> currentPage,
               elementsPerPage |-> pageSize]
         /\ subs[LastFetchIndex].request = calls[n + 1].request
  /\ (calls # <<>> /\ calls[1].op = "deleteGroup.next" /\ calls[1].success) =>
       /\ Len(calls) >= 4
       /\ SubSeq(Ops, 2, 4) = <<"notifications.success", "clearGroupsRequests", "searchGroups">>
       /\ \A n \in 5..Len(calls) : calls[n].op = "isAuthorized"

\* A successful delete invalidated the cache and re-issued a request that
\* had been issued (and cached) before.
C5_Witness ==
  /\ calls # <<>>
  /\ calls[1].op = "deleteGroup.next"
  /\ calls[1].success
  /\ \E k \in 1..(LastFetchIndex - 1) :
       subs[k].kind = "fetch" /\ subs[k].request = subs[LastFetchIndex].request

\* C6: a delete that reports failure shows one error notification whose
\* content carries the backend's cause unchanged, and changes nothing else:
\* no invalidation, no fetch, no subscription, no change of groups$,
\* groupsDto$ or pageInfoState$; calling deleteGroup fetches nothing either,
\* so only a reported success re-fetches the list.
C6_DeleteFailureOnlyNotifies ==
  [][/\ (calls'[1].op = "deleteGroup.next" /\ ~calls'[1].success) =>
          /\ Len(calls') = 2
          /\ calls'[2].op = "notifications.error"
          /\ calls'[2].content.cause = calls'[1].optionalErrorMessage
          /\ calls'[2].title.name = calls'[1].group
          /\ UNCHANGED <<groups, groupsDto, pageInfoState, subs, cachedRequests,
                         currentPage, currentSearchQuery>>
     /\ calls'[1].op = "deleteGroup" =>
          UNCHANGED <<groups, groupsDto, pageInfoState, subs, cachedRequests>>
     /\ (calls'[1].op \in {"deleteGroup", "deleteGroup.next"} /\ subs' # subs) =>
          calls'[1].op = "deleteGroup.next" /\ calls'[1].success]_vars

\* A delete has reported failure with the backend's cause.
C6_Witness ==
  /\ calls # <<>>
  /\ calls[1].op = "deleteGroup.next"
  /\ ~calls[1].success
  /\ calls[1].optionalErrorMessage = <<"cause">>
  /\ groupsDto # EmptyObject

\* C10: a list is published to groupsDto$ only by the derivation that
\* completes its page: every isAuthorized derivation of that page has
\* produced a value, and each DTO carries the value of its own derivation.
C10_JoinBeforePublish ==
  \A n \in DOMAIN calls :
    calls[n].op = "groupsDto$.next" =>
      /\ calls[1].op = "isAuthorized.next"
      /\ LET inner == subs[calls[1].sub].inner
             dtos == calls[n].value.page
         IN /\ \A i \in DOMAIN inner.latest : inner.latest[i] # <<>>
            /\ DOMAIN dtos = DOMAIN inner.latest
            /\ \A i \in DOMAIN dtos : <<dtos[i].ableToDelete>> = inner.latest[i]

\* One derivation of a two-group page has resolved, the other has not, and
\* nothing has been published.
C10_Witness ==
  /\ calls # <<>>
  /\ calls[1].op = "isAuthorized.next"
  /\ Len(calls) = 1
  /\ groupsDto = EmptyObject
  /\ LET inner == subs[calls[1].sub].inner
     IN /\ Len(inner.groups.page) = 2
        /\ \E i \in DOMAIN inner.latest : inner.latest[i] = <<>>
        /\ \E i \in DOMAIN inner.latest : inner.latest[i] # <<>>

LiveFetches == {k \in DOMAIN subs : IsLiveFetch(subs[k])}

LiveComposers == {k \in DOMAIN subs : IsLiveComposer(subs[k])}

\* C11: at any time at most one searchGroups result stream and at most one
\* composer subscription on groups$ are live: a new search leaves no
\* subscription of an earlier search active.
C11_SingleLiveStream ==
  /\ Cardinality(LiveFetches) <= 1
  /\ Cardinality(LiveComposers) <= 1

\* C12: the handlers that start a fetch cycle (ngOnInit, search,
\* onPageChange, clearFormAndResetResult, forceUpdateGroup, a delete's
\* success) start no isAuthorized derivation: derivations start only in the
\* handler of a searchGroups emission, after its groups$.next.
C12_FanOutAfterPublish ==
  \A n \in DOMAIN calls :
    calls[n].op = "isAuthorized" =>
      /\ calls[1].op = "searchGroups.next"
      /\ \E m \in 1..(n - 1) : calls[m].op = "groups$.next"

\* C13: onPageChange(n) issues one new searchGroups fetch with
\* currentPage = n, elementsPerPage = config.pageSize and the trimmed current
\* query; it leaves the query as it is, leaves the page at n (no reset to 1)
\* and writes none of groups$, groupsDto$ and pageInfoState$ itself.
C13_PageChangeRefetches ==
  [][calls'[1].op = "onPageChange" =>
       LET request == [query |-> trim(currentSearchQuery),
                       currentPage |-> calls'[1].event,
                       elementsPerPage |-> pageSize]
       IN /\ currentPage' = calls'[1].event
          /\ currentSearchQuery' = currentSearchQuery
          /\ Len(subs') = Len(subs) + 2
          /\ subs'[Len(subs) + 1] = FetchSubscription(request)
          /\ calls'[2].op = "searchGroups"
          /\ calls'[2].request = request
          /\ \A n \in DOMAIN calls' :
               /\ calls'[n].op # "navigateByUrl"
               /\ n > 2 => calls'[n].op = "isAuthorized"
          /\ UNCHANGED <<groups, groupsDto, pageInfoState>>]_vars

\* Page 2 was selected while the query " a" was current: the fetch carries
\* page 2 and the query "a".
C13_Witness ==
  /\ calls # <<>>
  /\ calls[1].op = "onPageChange"
  /\ calls[1].event = 2
  /\ currentSearchQuery = " a"
  /\ subs[LastFetchIndex].request =
       [query |-> "a", currentPage |-> 2, elementsPerPage |-> pageSize]
  /\ hasSucceeded(groups)

\* C14: clearFormAndResetResult sets the form's query to the empty string and
\* then runs the same search path as a search for the empty string: when the
\* previous query was not empty, currentSearchQuery becomes empty, the page
\* is reset to 1, the browser is navigated, and the one new searchGroups
\* call asks for the empty query on page 1 with the configured page size;
\* when the previous query was already empty the page is kept.
C14_ClearSearchesEmptyQuery ==
  [][calls'[1].op = "clearFormAndResetResult" =>
       LET changed == currentSearchQuery # ""
           page == IF changed THEN 1 ELSE currentPage
           request == [query |-> "",
                       currentPage |-> page,
                       elementsPerPage |-> pageSize]
       IN /\ formQuery' = ""
          /\ currentSearchQuery' = ""
          /\ currentPage' = page
          /\ calls'[2] = [op |-> "patchValue", query |-> ""]
          /\ changed <=> (\E n \in DOMAIN calls' : calls'[n].op = "navigateByUrl")
          /\ Cardinality({n \in DOMAIN calls' : calls'[n].op = "searchGroups"}) = 1
          /\ \A n \in DOMAIN calls' :
               calls'[n].op = "searchGroups" => calls'[n].request = request
          /\ Len(subs') = Len(subs) + 2
          /\ subs'[Len(subs) + 1] = FetchSubscription(request)
          /\ IsLiveComposer(subs'[Len(subs) + 2])]_vars

\* A clear after a search for " a" that had been paged to page 2: the search
\* it issues asks for the empty query on page 1.
C14_Witness ==
  /\ calls # <<>>
  /\ calls[1].op = "clearFormAndResetResult"
  /\ \E n \in DOMAIN calls : calls[n].op = "navigateByUrl"
  /\ Len(subs) >= 4
  /\ subs[Len(subs) - 3].request =
       [query |-> "a", currentPage |-> 2, elementsPerPage |-> pageSize]
  /\ subs[LastFetchIndex].request =
       [query |-> "", currentPage |-> 1, elementsPerPage |-> pageSize]
  /\ formQuery = ""

\* C15: when a search fetch emits a result that is not a Success, its
\* subscriber reports it as state only: groups$ takes the value and no
\* exception is raised in the subscriber.
C15_NonSuccessIsStateOnly ==
  (/\ calls # <<>>
   /\ calls[1].op = "searchGroups.next"
   /\ ~hasSucceeded(groups))
    => \A n \in DOMAIN calls : calls[n].op # "throw"

\* Every issued fetch has answered, and no combineLatest of a live composer
\* still waits for an isAuthorized answer.
AllFetchesResolved ==
  \A k \in DOMAIN subs : subs[k].kind = "fetch" => (subs[k].emitted > 0 \/ subs[k].closed)

AllAuthorizationsResolved ==
  \A k \in LiveComposers :
    subs[k].inner = NoInner \/ combineLatestReady(subs[k].inner.latest)

\* C16: in the active component, whenever every issued fetch and every
\* authorization derivation has resolved and groups$ holds a Success,
\* groupsDto$ holds exactly the groups of that payload's page, in order and
\* with its pageInfo, and pageInfoState$ holds that pageInfo, for every page
\* length, zero included.
C16_DtoMatchesGroups ==
  (/\ phase = "active"
   /\ AllFetchesResolved
   /\ AllAuthorizationsResolved
   /\ hasSucceeded(groups))
    => /\ groupsDto # EmptyObject
       /\ groupsDto.pageInfo = groups.payload.pageInfo
       /\ Len(groupsDto.page) = Len(groups.payload.page)
       /\ \A j \in DOMAIN groupsDto.page :
            groupsDto.page[j].group = groups.payload.page[j]
       /\ pageInfoState = groups.payload.pageInfo

(***************************************************************************)
(* Properties of the RSS component (specification SpecRss).                *)
(***************************************************************************)
\* C7: formulateRoute returns '/' + opensearch + '/search?format=atom', then
\* '&scope=' + uuid only for a non-empty uuid, then '&sort=' + field +
\* '&sort_direction=' + direction only when both are non-empty, then
\* '&query=' + query, or '&query=*' for an empty query, in this order.
C7_FormulateRoute ==
  /\ route # <<>> =>
       route[1] =
         baseUrl \o "/" \o emission.opensearch \o "/search?format=atom"
           \o (IF emission.uuid # "" THEN "&scope=" \o emission.uuid ELSE "")
           \o (IF emission.sort.field # "" /\ emission.sort.direction # ""
               THEN "&sort=" \o emission.sort.field
                      \o "&sort_direction=" \o emission.sort.direction
               ELSE "")
           \o (IF emission.query # "" THEN "&query=" \o emission.query ELSE "&query=*")
  /\ (route # <<>> /\ baseUrl = "" /\ emission = [uuid |-> "abc", opensearch |-> "svc",
                                                  sort |-> [field |-> "score", direction |-> "desc"],
                                                  query |-> ""]) =>
       route[1] = "/svc/search?format=atom&scope=abc&sort=score&sort_direction=desc&query=*"

\* The route of the documented example has been built.
C7_Witness ==
  /\ route # <<>>
  /\ baseUrl = ""
  /\ emission = [uuid |-> "abc", opensearch |-> "svc",
                 sort |-> [field |-> "score", direction |-> "desc"], query |-> ""]

\* C8: the RSS href registered with an Atom href is that href with the
\* value of the format parameter formulateRoute introduced changed from
\* atom to rss, and is otherwise identical.
C8_RssIsAtomWithFormatRss ==
  (emission # Null /\ Len(head) >= 3 /\ head[Len(head) - 1].title = "Sitewide RSS feed") =>
    /\ head[Len(head) - 2].href = route[1]
    /\ head[Len(head) - 1].href =
         baseUrl \o "/" \o emission.opensearch \o "/search?format=rss"
           \o SubSeq(route[1],
                     Len(baseUrl \o "/" \o emission.opensearch \o "/search?format=atom") + 1,
                     Len(route[1]))

\* C9: after ngOnDestroy none of the tags the component added is in the
\* document head (the head holds no other tags here).
C9_NoTagAfterDestroy ==
  rssPhase = "destroyed" => head = <<>>

====
